---- MODULE Spec2Model ----
(***************************************************************************)
(* custos_sdk.client.Custos: the inscribe / attest / total_cycles          *)
(* coroutines of one client instance, run against a JSON-RPC node and the  *)
(* CustosNetwork proxy contract.  Each coroutine is cut at its awaits: the *)
(* code between two awaits is one atomic step of the asyncio event loop.   *)
(* The node, the chain and the contract are the environment.               *)
(*                                                                         *)
(* Strings are sequences of one-character strings, byte strings are        *)
(* sequences of 0..255.  A summary is represented by its length.           *)
(***************************************************************************)
EXTENDS Integers, Sequences, FiniteSets, TLC

\* ------------------------------------------------------------------ bounds

\* blocks the chain may produce in one run
MaxBlocks == 2
\* receipt polls that fit in wait_for_transaction_receipt's timeout
MaxPolls == 1
\* the node's gas price moves from InitGasPrice up to MaxGasPrice
MaxGasPrice == 11
\* longest summary tried
MaxSummaryLen == 142
\* longest proof identifier tried, in bytes
MaxProofBytes == 34
\* inscriptions of other identities that may land in one block
MaxOthers == 1
\* the simulated node: the signer's transaction count and the gas price at start
InitNonce == 5
InitGasPrice == 10

\* ------------------------------------------------------- program constants

SummaryLimit == 140
HashLen == 32
DefaultAgentId == 1

BLOCK_TYPE_MAP ==
    [build |-> 0, research |-> 1, market |-> 2, system |-> 3, governance |-> 4]

\* the coroutines of one client instance that may be in flight together
Calls == {1, 2}

\* --------------------------------------------------------- bytes and text

Min(a, b) == IF a < b THEN a ELSE b

HexDigits ==
    <<"0", "1", "2", "3", "4", "5", "6", "7", "8", "9", "a", "b", "c", "d", "e", "f">>

UpperHexDigits ==
    <<"0", "1", "2", "3", "4", "5", "6", "7", "8", "9", "A", "B", "C", "D", "E", "F">>

IsHexChar(ch) ==
    \E i \in 1..16 : HexDigits[i] = ch \/ UpperHexDigits[i] = ch

HexVal(ch) ==
    (CHOOSE i \in 1..16 : HexDigits[i] = ch \/ UpperHexDigits[i] = ch) - 1

\* the vertical tab (0x0b), for which a string has no escape: the character itself
VerticalTab == ""

IsSpace(ch) == ch \in {" ", "\t", "\n", VerticalTab, "\f", "\r"}

\* bytes.hex(): two lower-case digits per byte, no prefix
ToHex(b) ==
    [i \in 1..(2 * Len(b)) |->
        IF i % 2 = 1 THEN HexDigits[(b[(i + 1) \div 2] \div 16) + 1]
                     ELSE HexDigits[(b[i \div 2] % 16) + 1]]

\* bytes.fromhex(): white space is skipped before a pair of digits, a pair is
\* two adjacent hex digits; anything else raises ValueError
RECURSIVE FromHexAt(_, _, _)
FromHexAt(s, i, acc) ==
    IF i > Len(s) THEN [ok |-> TRUE, bytes |-> acc]
    ELSE IF IsSpace(s[i]) THEN FromHexAt(s, i + 1, acc)
    ELSE IF ~IsHexChar(s[i]) THEN [ok |-> FALSE, bytes |-> <<>>]
    ELSE IF i + 1 > Len(s) \/ ~IsHexChar(s[i + 1]) THEN [ok |-> FALSE, bytes |-> <<>>]
    ELSE FromHexAt(s, i + 2, Append(acc, 16 * HexVal(s[i]) + HexVal(s[i + 1])))

\* a parser that yields no bytes where bytes.fromhex raises
FromHexLenient(s) == [ok |-> TRUE, bytes |-> FromHexAt(s, 1, <<>>).bytes]

FromHex(s) == FromHexAt(s, 1, <<>>)

\* str.removeprefix("0x")
RemovePrefix0x(s) ==
    IF Len(s) >= 2 /\ s[1] = "0" /\ s[2] = "x" THEN SubSeq(s, 3, Len(s)) ELSE s

\* bytes.ljust(width, b"\x00")
Ljust(b, width) ==
    IF Len(b) >= width THEN b ELSE b \o [i \in 1..(width - Len(b)) |-> 0]

\* b[:n]
Take(b, n) == SubSeq(b, 1, Min(n, Len(b)))

\* a normalization that pads and never cuts: ph_bytes.ljust(32, b"\x00")
Ph32NoCut(ph_bytes) == Ljust(ph_bytes, HashLen)

\* ph_bytes.ljust(32, b"\x00")[:32]
Ph32(ph_bytes) == Take(Ljust(ph_bytes, HashLen), HashLen)

\* hashlib.sha256(content.encode()).digest() of the contents tried
Sha256(content) ==
    CASE content = "content" ->
            <<237, 112, 2, 180, 57, 233, 172, 132, 95, 34, 53, 125, 130, 43, 172, 20,
              68, 115, 15, 189, 182, 1, 109, 62, 201, 67, 34, 151, 185, 236, 159, 115>>
      [] content = "" ->
            <<227, 176, 196, 66, 152, 252, 28, 20, 154, 251, 244, 200, 153, 111, 185, 36,
              39, 174, 65, 228, 100, 155, 147, 76, 164, 149, 153, 27, 120, 82, 184, 85>>
      [] content = "other" ->
            <<217, 41, 138, 16, 209, 176, 115, 88, 55, 220, 75, 216, 93, 172, 100, 27,
              15, 60, 239, 39, 164, 126, 93, 83, 165, 79, 47, 63, 91, 47, 207, 250>>

\* a digest taken of the content cut down to nothing: sha256(content[:0])
ContentHashOfPrefix(content) == Take(FromHex(ToHex(Sha256(""))).bytes, HashLen)

\* bytes.fromhex(hashlib.sha256(content.encode()).hexdigest())[:32]
ContentHash(content) == Take(FromHex(ToHex(Sha256(content))).bytes, HashLen)

\* ------------------------------------------------------------------ state

VARIABLES
    pc,           \* per call: the await the coroutine is suspended at
    op,           \* per call: "inscribe", "attest", "total_cycles" or "none"
    args,         \* per call: the arguments it was called with
    frame,        \* per call: the local variables of the coroutine
    result,       \* per call: the object returned
    error,        \* per call: the exception raised out of the call
    rpcs,         \* per call: the node methods the call has invoked, in order
    hist,         \* per call: the pipeline stages the call has passed
    txCount,      \* node: the signer's transaction count at the latest block
    gasPrice,     \* node: the current gas price
    blockNumber,  \* chain: the number of the latest block
    totalCycles,  \* contract: the network-wide cycle counter
    pool,         \* node: per call, what became of the transaction it sent
    nodeTx,       \* node: per call, the transaction received from it
    chainReceipt, \* chain: per call, the receipt of its included transaction
    replied       \* node: per call, the values the node answered with

clientVars == <<pc, op, args, frame, result, error, rpcs, hist>>
nodeVars == <<txCount, gasPrice, blockNumber, totalCycles, pool, nodeTx, chainReceipt, replied>>
vars == <<pc, op, args, frame, result, error, rpcs, hist,
          txCount, gasPrice, blockNumber, totalCycles, pool, nodeTx, chainReceipt, replied>>

NoArgs ==
    [block |-> "", summary |-> 0, content |-> "", proof_hash |-> <<>>, valid |-> FALSE,
     sync |-> FALSE]

NoTx ==
    [fn |-> "none", block_type |-> -1, summary |-> -1, hash32 |-> <<>>,
     agent_id |-> -1, valid |-> FALSE, nonce |-> -1, gasPrice |-> -1]

NoReceipt == [blockNumber |-> -1, cycleId |-> -1, proofHash |-> <<>>]

NoResult ==
    [kind |-> "none", tx_hash |-> <<>>, proof_hash |-> <<>>,
     cycle_id |-> -1, network_cycle |-> -1, value |-> -1]

NoFrame ==
    [block_type |-> -1, content_hash |-> <<>>, ph32 |-> <<>>, nonce |-> -1,
     gas_price |-> -1, tx |-> NoTx, tx_hash |-> <<>>, receipt |-> NoReceipt,
     network_cycle |-> -1, polls |-> 0]

NoReply == [tx_id |-> <<>>, totalCycles |-> -1]

\* InscribeResult(tx_hash, proof_hash, cycle_id, network_cycle)
InscribeResult(tx_hash, proof_hash, cycle_id, network_cycle) ==
    [kind |-> "InscribeResult", tx_hash |-> tx_hash, proof_hash |-> proof_hash,
     cycle_id |-> cycle_id, network_cycle |-> network_cycle, value |-> -1]

\* AttestResult(tx_hash)
AttestResult(tx_hash) ==
    [kind |-> "AttestResult", tx_hash |-> tx_hash, proof_hash |-> <<>>,
     cycle_id |-> -1, network_cycle |-> -1, value |-> -1]

\* a total_cycles that returns the id the next cycle will get
IntResultNextCycle(n) ==
    [kind |-> "int", tx_hash |-> <<>>, proof_hash |-> <<>>,
     cycle_id |-> -1, network_cycle |-> -1, value |-> n + 1]

\* the int total_cycles returns
IntResult(n) ==
    [kind |-> "int", tx_hash |-> <<>>, proof_hash |-> <<>>,
     cycle_id |-> -1, network_cycle |-> -1, value |-> n]

Init ==
    /\ pc = [c \in Calls |-> "idle"]
    /\ op = [c \in Calls |-> "none"]
    /\ args = [c \in Calls |-> NoArgs]
    /\ frame = [c \in Calls |-> NoFrame]
    /\ result = [c \in Calls |-> NoResult]
    /\ error = [c \in Calls |-> "none"]
    /\ rpcs = [c \in Calls |-> <<>>]
    /\ hist = [c \in Calls |-> <<>>]
    /\ txCount = InitNonce
    /\ gasPrice = InitGasPrice
    /\ blockNumber = 0
    /\ totalCycles = 0
    /\ pool = [c \in Calls |-> "none"]
    /\ nodeTx = [c \in Calls |-> NoTx]
    /\ chainReceipt = [c \in Calls |-> NoReceipt]
    /\ replied = [c \in Calls |-> NoReply]

\* ------------------------------------------------- the node and the chain

\* the transaction id the node computes for a transaction: a digest of all of it
TxId(tx) ==
    << (IF tx.fn = "inscribeCycle" THEN 1 ELSE 2), tx.nonce % 256, tx.gasPrice % 256,
       (tx.block_type + 1) % 256, (tx.summary + 1) % 256, (tx.agent_id + 1) % 256,
       (IF tx.valid THEN 1 ELSE 0) >> \o tx.hash32

\* the proofHash the contract may compute for an inscription of content hash h
ContractProofHashes(h) ==
    IF h = <<>> THEN {} ELSE {h, [h EXCEPT ![1] = (h[1] + 1) % 256]}

\* the calls whose pending transaction the next block can include
Includable == {c \in Calls : pool[c] = "pending" /\ nodeTx[c].nonce = txCount}

\* a block with k inscriptions of other identities and nothing of this signer
MineEmpty(k) ==
    /\ blockNumber < MaxBlocks
    /\ blockNumber' = blockNumber + 1
    /\ totalCycles' = totalCycles + k
    /\ UNCHANGED <<txCount, gasPrice, pool, nodeTx, chainReceipt, replied>>
    /\ UNCHANGED clientVars

\* a block with k inscriptions of other identities, then the transaction of call t
MineTx(t, k, ph) ==
    /\ blockNumber < MaxBlocks
    /\ t \in Includable
    /\ blockNumber' = blockNumber + 1
    /\ txCount' = txCount + 1
    /\ pool' = [pool EXCEPT ![t] = "mined"]
    /\ IF nodeTx[t].fn = "inscribeCycle"
          THEN /\ ph \in ContractProofHashes(nodeTx[t].hash32)
               /\ totalCycles' = totalCycles + k + 1
               /\ chainReceipt' = [chainReceipt EXCEPT ![t] =
                      [blockNumber |-> blockNumber + 1, cycleId |-> totalCycles + k + 1,
                       proofHash |-> ph]]
          ELSE /\ ph = <<>>
               /\ totalCycles' = totalCycles + k
               /\ chainReceipt' = [chainReceipt EXCEPT ![t] =
                      [blockNumber |-> blockNumber + 1, cycleId |-> -1, proofHash |-> <<>>]]
    /\ UNCHANGED <<gasPrice, nodeTx, replied>>
    /\ UNCHANGED clientVars

\* the node's gas price rises
GasPriceRises ==
    /\ gasPrice < MaxGasPrice
    /\ gasPrice' = gasPrice + 1
    /\ UNCHANGED <<txCount, blockNumber, totalCycles, pool, nodeTx, chainReceipt, replied>>
    /\ UNCHANGED clientVars

\* eth_getTransactionReceipt(tx_hash): the receipt of the included transaction
\* with that id, if there is one
ReceiptCalls(tx_hash) == {d \in Calls : pool[d] = "mined" /\ TxId(nodeTx[d]) = tx_hash}

\* ------------------------------------------------------------ the client

Stages == <<"Built", "StateFetched", "Signed", "Submitted", "Confirmed", "Reported">>

\* a coroutine that catches the exception of an await and returns normally
RaiseSwallowed(c, e) ==
    /\ pc' = [pc EXCEPT ![c] = IF pc[c] = "idle" THEN "failed" ELSE "done"]
    /\ error' = [error EXCEPT ![c] = e]
    /\ hist' = [hist EXCEPT ![c] = Append(@, "Failed")]
    /\ UNCHANGED result

\* the exception leaves the coroutine: nothing after the raising line runs
Raise(c, e) ==
    /\ pc' = [pc EXCEPT ![c] = "failed"]
    /\ error' = [error EXCEPT ![c] = e]
    /\ hist' = [hist EXCEPT ![c] = Append(@, "Failed")]
    /\ UNCHANGED result

\* the node double's record of an invocation by call c
Invoke(c, method) == rpcs' = [rpcs EXCEPT ![c] = Append(@, method)]

\* a summary check that lets 141 characters through
SummaryTooLongOffByOne(summary) == summary > SummaryLimit + 1

\* a summary check that turns 140 characters away: len(summary) >= 140
SummaryTooLongAtLimit(summary) == summary >= SummaryLimit

\* len(summary) > 140
SummaryTooLong(summary) == summary > SummaryLimit

\* block in BLOCK_TYPE_MAP, without which BLOCK_TYPE_MAP[block] raises KeyError
KnownBlock(block) == block \in DOMAIN BLOCK_TYPE_MAP

\* a lookup that falls back to the first block type: BLOCK_TYPE_MAP.get(block, 0)
ResolveBlockDefault(block) ==
    IF KnownBlock(block) THEN [ok |-> TRUE, block_type |-> BLOCK_TYPE_MAP[block]]
                         ELSE [ok |-> TRUE, block_type |-> 0]

\* BLOCK_TYPE_MAP[block]
ResolveBlock(block) ==
    IF KnownBlock(block) THEN [ok |-> TRUE, block_type |-> BLOCK_TYPE_MAP[block]]
                         ELSE [ok |-> FALSE, block_type |-> -1]

\* a coroutine that does not await the receipt of the transaction it has sent
NextAwaitNoWait(o, at) ==
    CASE at = "get_transaction_count" -> "gas_price"
      [] at = "gas_price" -> "build_transaction"
      [] at = "build_transaction" -> "send_raw_transaction"
      [] at = "send_raw_transaction" /\ o = "inscribe" -> "totalCycles"
      [] at = "send_raw_transaction" /\ o = "attest" -> "done"
      [] at = "wait_for_transaction_receipt" /\ o = "inscribe" -> "totalCycles"
      [] at = "wait_for_transaction_receipt" /\ o = "attest" -> "done"
      [] at = "totalCycles" -> "done"

\* the await that follows await `at` in the coroutine of operation o
NextAwait(o, at) ==
    CASE at = "get_transaction_count" -> "gas_price"
      [] at = "gas_price" -> "build_transaction"
      [] at = "build_transaction" -> "send_raw_transaction"
      [] at = "send_raw_transaction" -> "wait_for_transaction_receipt"
      [] at = "wait_for_transaction_receipt" /\ o = "inscribe" -> "totalCycles"
      [] at = "wait_for_transaction_receipt" /\ o = "attest" -> "done"
      [] at = "totalCycles" -> "done"

\* the body of inscribe(block, summary, content), up to its first await, entered
\* by an await of the caller or through inscribe_sync
InscribeCoroutine(c, block, summary, content, sync) ==
    /\ pc[c] = "idle"
    /\ op' = [op EXCEPT ![c] = "inscribe"]
    /\ args' = [args EXCEPT ![c] =
           [block |-> block, summary |-> summary, content |-> content,
            proof_hash |-> <<>>, valid |-> FALSE, sync |-> sync]]
    /\ IF SummaryTooLong(summary)
          THEN Raise(c, "ValueError") /\ UNCHANGED frame
          ELSE IF ~ResolveBlock(block).ok
                  THEN Raise(c, "KeyError") /\ UNCHANGED frame
                  ELSE /\ frame' = [frame EXCEPT ![c] =
                              [@ EXCEPT !.block_type = ResolveBlock(block).block_type,
                                        !.content_hash = ContentHash(content)]]
                       /\ pc' = [pc EXCEPT ![c] = "get_transaction_count"]
                       /\ hist' = [hist EXCEPT ![c] = Append(@, "Built")]
                       /\ UNCHANGED <<result, error>>
    /\ UNCHANGED rpcs
    /\ UNCHANGED nodeVars

\* await custos.inscribe(block, summary, content)
Inscribe(c, block, summary, content) == InscribeCoroutine(c, block, summary, content, FALSE)

\* inscribe_sync(block, summary, content):
\* asyncio.run(self.inscribe(block=block, summary=summary, content=content))
InscribeSync(c, block, summary, content) == InscribeCoroutine(c, block, summary, content, TRUE)

\* a wrapper that runs the coroutine and forgets to return what it returned
AsyncioRunNoReturn(r) == NoResult

\* return asyncio.run(coroutine): what the coroutine returned
AsyncioRun(r) == r

\* the body of attest(proof_hash, valid), up to its first await, entered by an
\* await of the caller or through attest_sync
AttestCoroutine(c, proof_hash, valid, sync) ==
    /\ pc[c] = "idle"
    /\ op' = [op EXCEPT ![c] = "attest"]
    /\ args' = [args EXCEPT ![c] =
           [block |-> "", summary |-> 0, content |-> "",
            proof_hash |-> proof_hash, valid |-> valid, sync |-> sync]]
    /\ LET ph_bytes == FromHex(RemovePrefix0x(proof_hash))
       IN  IF ~ph_bytes.ok
              THEN Raise(c, "ValueError") /\ UNCHANGED frame
              ELSE /\ frame' = [frame EXCEPT ![c] = [@ EXCEPT !.ph32 = Ph32(ph_bytes.bytes)]]
                   /\ pc' = [pc EXCEPT ![c] = "get_transaction_count"]
                   /\ hist' = [hist EXCEPT ![c] = Append(@, "Built")]
                   /\ UNCHANGED <<result, error>>
    /\ UNCHANGED rpcs
    /\ UNCHANGED nodeVars

\* await custos.attest(proof_hash, valid)
Attest(c, proof_hash, valid) == AttestCoroutine(c, proof_hash, valid, FALSE)

\* attest_sync(proof_hash, valid):
\* asyncio.run(self.attest(proof_hash=proof_hash, valid=valid))
AttestSync(c, proof_hash, valid) == AttestCoroutine(c, proof_hash, valid, TRUE)

\* total_cycles(), up to its await
TotalCycles(c) ==
    /\ pc[c] = "idle"
    /\ op' = [op EXCEPT ![c] = "total_cycles"]
    /\ pc' = [pc EXCEPT ![c] = "totalCycles"]
    /\ UNCHANGED <<args, frame, result, error, rpcs, hist>>
    /\ UNCHANGED nodeVars

\* a client that keeps the nonce of its first call for the calls that follow
TransactionCountCached(c) ==
    IF c # 1 /\ frame[1].nonce # NoFrame.nonce THEN frame[1].nonce ELSE txCount

\* what the node answers call c's get_transaction_count(address): the number of
\* transactions of the signer included so far (block "latest")
TransactionCount(c) == txCount

\* nonce = await self._w3.eth.get_transaction_count(self._account.address)
GetTransactionCount(c, fault) ==
    /\ pc[c] = "get_transaction_count"
    /\ Invoke(c, "get_transaction_count")
    /\ \/ /\ ~fault
          /\ frame' = [frame EXCEPT ![c] = [@ EXCEPT !.nonce = TransactionCount(c)]]
          /\ pc' = [pc EXCEPT ![c] = NextAwait(op[c], "get_transaction_count")]
          /\ UNCHANGED <<result, error, hist>>
       \/ /\ fault
          /\ Raise(c, "ConnectionError")
          /\ UNCHANGED frame
    /\ UNCHANGED <<op, args>>
    /\ UNCHANGED nodeVars

\* gas_price = await self._w3.eth.gas_price
GasPrice(c, fault) ==
    /\ pc[c] = "gas_price"
    /\ Invoke(c, "gas_price")
    /\ \/ /\ ~fault
          /\ frame' = [frame EXCEPT ![c] = [@ EXCEPT !.gas_price = gasPrice]]
          /\ pc' = [pc EXCEPT ![c] = NextAwait(op[c], "gas_price")]
          /\ hist' = [hist EXCEPT ![c] = Append(@, "StateFetched")]
          /\ UNCHANGED <<result, error>>
       \/ /\ fault
          /\ Raise(c, "ConnectionError")
          /\ UNCHANGED frame
    /\ UNCHANGED <<op, args>>
    /\ UNCHANGED nodeVars

\* the transaction dict build_transaction returns for the call's contract function
BuildTx(c) ==
    IF op[c] = "inscribe"
       THEN [fn |-> "inscribeCycle", block_type |-> frame[c].block_type,
             summary |-> args[c].summary, hash32 |-> frame[c].content_hash,
             agent_id |-> -1, valid |-> FALSE,
             nonce |-> frame[c].nonce, gasPrice |-> frame[c].gas_price]
       ELSE [fn |-> "attestProof", block_type |-> -1, summary |-> -1,
             hash32 |-> frame[c].ph32, agent_id |-> DefaultAgentId, valid |-> args[c].valid,
             nonce |-> frame[c].nonce, gasPrice |-> frame[c].gas_price]

\* tx = await ...build_transaction({...}); signed = self._account.sign_transaction(tx)
BuildTransaction(c, fault) ==
    /\ pc[c] = "build_transaction"
    /\ Invoke(c, "build_transaction")
    /\ \/ /\ ~fault
          /\ frame' = [frame EXCEPT ![c] = [@ EXCEPT !.tx = BuildTx(c)]]
          /\ pc' = [pc EXCEPT ![c] = NextAwait(op[c], "build_transaction")]
          /\ hist' = [hist EXCEPT ![c] = Append(@, "Signed")]
          /\ UNCHANGED <<result, error>>
       \/ /\ fault
          /\ Raise(c, "ConnectionError")
          /\ UNCHANGED frame
    /\ UNCHANGED <<op, args>>
    /\ UNCHANGED nodeVars

\* a client that swallows the node's rejection and submits the transaction again
SendRejectedRetried(c) ==
    /\ pool' = [pool EXCEPT ![c] = "rejected"]
    /\ UNCHANGED <<pc, error, hist, result, frame, replied>>

\* the node rejects the transaction: send_raw_transaction raises, and the
\* exception leaves the coroutine, which has no try around the await
SendRejected(c) ==
    /\ pool' = [pool EXCEPT ![c] = "rejected"]
    /\ Raise(c, "Web3RPCError")
    /\ UNCHANGED <<frame, replied>>

\* tx_hash = await self._w3.eth.send_raw_transaction(signed.raw_transaction)
SendRawTransaction(c, fault) ==
    /\ pc[c] = "send_raw_transaction"
    /\ Invoke(c, "send_raw_transaction")
    /\ \/ /\ ~fault
          /\ nodeTx' = [nodeTx EXCEPT ![c] = frame[c].tx]
          /\ frame[c].tx.nonce >= txCount
          /\ pool' = [pool EXCEPT ![c] = "pending"]
          /\ replied' = [replied EXCEPT ![c] = [@ EXCEPT !.tx_id = TxId(frame[c].tx)]]
          /\ frame' = [frame EXCEPT ![c] = [@ EXCEPT !.tx_hash = TxId(frame[c].tx)]]
          /\ pc' = [pc EXCEPT ![c] = NextAwait(op[c], "send_raw_transaction")]
          /\ hist' = [hist EXCEPT ![c] = Append(@, "Submitted")]
          /\ UNCHANGED <<result, error>>
       \/ /\ ~fault
          /\ nodeTx' = [nodeTx EXCEPT ![c] = frame[c].tx]
          /\ SendRejected(c)
       \/ /\ fault
          /\ Raise(c, "ConnectionError")
          /\ UNCHANGED <<frame, replied, pool, nodeTx>>
    /\ UNCHANGED <<op, args>>
    /\ UNCHANGED <<txCount, gasPrice, blockNumber, totalCycles, chainReceipt>>

\* a wait with no timeout: wait_for_transaction_receipt(tx_hash, timeout=None)
TimedOutNever(polls) == FALSE

\* the wait's timeout has run out after this many polls without a receipt
TimedOut(polls) == polls >= MaxPolls

\* a return that reports the block number of the receipt as the network cycle
InscribeReturnBlockAsCycle(f, network_cycle) ==
    InscribeResult(ToHex(f.tx_hash), <<"0", "x">> \o ToHex(f.content_hash),
                   f.receipt.blockNumber, f.receipt.blockNumber)

\* InscribeResult(tx_hash=tx_hash.hex(), proof_hash="0x" + content_hash.hex(),
\*                cycle_id=receipt["blockNumber"], network_cycle=network_cycle)
InscribeReturn(f, network_cycle) ==
    InscribeResult(ToHex(f.tx_hash), <<"0", "x">> \o ToHex(f.content_hash),
                   f.receipt.blockNumber, network_cycle)

\* AttestResult(tx_hash=tx_hash.hex())
AttestReturn(f) == AttestResult(ToHex(f.tx_hash))

\* a wait that reports its timeout as a rejection of the transaction
WaitTimedOutAsRejection(c) ==
    /\ Raise(c, "Web3RPCError")
    /\ UNCHANGED frame

\* the wait gives up: wait_for_transaction_receipt raises TimeExhausted, which
\* leaves the coroutine; nothing is sent to the node
WaitTimedOut(c) ==
    /\ Raise(c, "TimeExhausted")
    /\ UNCHANGED frame

\* receipt = await self._w3.eth.wait_for_transaction_receipt(tx_hash)
\* one poll of the wait, or its timeout
WaitForTransactionReceipt(c, fault) ==
    /\ pc[c] = "wait_for_transaction_receipt"
    /\ rpcs' = [rpcs EXCEPT ![c] =
           IF @[Len(@)] = "wait_for_transaction_receipt" THEN @
           ELSE Append(@, "wait_for_transaction_receipt")]
    /\ \/ \E d \in ReceiptCalls(frame[c].tx_hash) :
             LET f    == [frame[c] EXCEPT !.receipt = chainReceipt[d]]
                 next == NextAwait(op[c], "wait_for_transaction_receipt")
             IN  /\ ~fault
                 /\ frame' = [frame EXCEPT ![c] = f]
                 /\ pc' = [pc EXCEPT ![c] = next]
                 /\ IF next = "done"
                       THEN /\ result' = [result EXCEPT ![c] =
                                   IF args[c].sync THEN AsyncioRun(AttestReturn(f))
                                                   ELSE AttestReturn(f)]
                            /\ hist' = [hist EXCEPT ![c] = @ \o <<"Confirmed", "Reported">>]
                       ELSE /\ hist' = [hist EXCEPT ![c] = Append(@, "Confirmed")]
                            /\ UNCHANGED result
                 /\ UNCHANGED error
       \/ /\ ~fault
          /\ ReceiptCalls(frame[c].tx_hash) = {}
          /\ ~TimedOut(frame[c].polls)
          /\ frame' = [frame EXCEPT ![c] =
                 [@ EXCEPT !.polls = IF @ < MaxPolls THEN @ + 1 ELSE @]]
          /\ UNCHANGED <<pc, result, error, hist>>
       \/ /\ ~fault
          /\ TimedOut(frame[c].polls)
          /\ WaitTimedOut(c)
       \/ /\ fault
          /\ Raise(c, "ConnectionError")
          /\ UNCHANGED frame
    /\ UNCHANGED <<op, args>>
    /\ UNCHANGED nodeVars

\* network_cycle = await self._contract.functions.totalCycles().call()
\* and the return of inscribe, or the return of total_cycles
TotalCyclesCall(c, fault) ==
    /\ pc[c] = "totalCycles"
    /\ Invoke(c, "totalCycles")
    /\ \/ /\ ~fault
          /\ replied' = [replied EXCEPT ![c] = [@ EXCEPT !.totalCycles = totalCycles]]
          /\ pc' = [pc EXCEPT ![c] = NextAwait(op[c], "totalCycles")]
          /\ IF op[c] = "inscribe"
                THEN /\ frame' = [frame EXCEPT ![c] = [@ EXCEPT !.network_cycle = totalCycles]]
                     /\ result' = [result EXCEPT ![c] =
                            IF args[c].sync THEN AsyncioRun(InscribeReturn(frame[c], totalCycles))
                                            ELSE InscribeReturn(frame[c], totalCycles)]
                     /\ hist' = [hist EXCEPT ![c] = Append(@, "Reported")]
                ELSE /\ result' = [result EXCEPT ![c] = IntResult(totalCycles)]
                     /\ UNCHANGED <<frame, hist>>
          /\ UNCHANGED error
       \/ /\ fault
          /\ Raise(c, "ConnectionError")
          /\ UNCHANGED <<frame, replied>>
    /\ UNCHANGED <<op, args>>
    /\ UNCHANGED <<txCount, gasPrice, blockNumber, totalCycles, pool, nodeTx, chainReceipt>>

\* ------------------------------------------------------------- the inputs

\* byte i of the proof identifier of a given seed (seed 0: all zero bytes)
PatternByte(seed, i) == (seed * (17 * i + 3)) % 256

PatternBytes(seed, n) == [i \in 1..n |-> PatternByte(seed, i)]

\* the digits of a hex string in upper case
Upper(s) == [i \in 1..Len(s) |-> IF IsHexChar(s[i]) THEN UpperHexDigits[HexVal(s[i]) + 1] ELSE s[i]]

\* the white space bytes.fromhex skips: every ASCII white-space character
Blanks == <<" ", "\t", "\n", VerticalTab, "\f", "\r">>

\* a caller's proof identifier: n bytes in hex behind a prefix, as written by
\* the caller: well-formed, in upper case, with white space between two bytes,
\* with the last digit missing, or with a character that is no hex digit
ProofString(prefix, n, seed, form) ==
    LET digits == ToHex(PatternBytes(seed, n))
    IN  prefix \o
        (CASE form = "lower" -> digits
           [] form = "upper" -> Upper(digits)
           [] form = "blank" -> IF n >= 1 THEN SubSeq(digits, 1, 2) \o <<Blanks[((n + seed) % Len(Blanks)) + 1]>>
                                                   \o SubSeq(digits, 3, 2 * n)
                                          ELSE <<Blanks[(seed % Len(Blanks)) + 1]>>
           [] form = "odd" -> IF n >= 1 THEN SubSeq(digits, 1, 2 * n - 1) ELSE <<"a">>
           [] form = "nonhex" -> IF n >= 1 THEN [digits EXCEPT ![2 * n] = "g"] ELSE <<"g", "0">>)

Prefixes == {<<>>, <<"0", "x">>, <<"0", "X">>}
Forms == {"lower", "upper", "blank", "odd", "nonhex"}

\* every proof identifier tried when one call runs alone
ProofInputs ==
    {ProofString(p, n, seed, form) :
        p \in Prefixes, n \in 0..MaxProofBytes, seed \in {0, 1}, form \in Forms}

\* the proof identifiers tried when two calls run together
FewProofInputs ==
    {ProofString(<<"0", "x">>, HashLen + 1, 1, "lower"),
     ProofString(<<>>, 1, 1, "nonhex")}

BlockInputs == DOMAIN BLOCK_TYPE_MAP \cup {"unknown", ""}
FewBlockInputs == {"research", "unknown"}

SummaryInputs == {0} \cup (SummaryLimit - 1)..MaxSummaryLen
FewSummaryInputs == {SummaryLimit, MaxSummaryLen}

ContentInputs == {"content", "", "other"}
FewContentInputs == {"content"}

\* the inscriptions tried when one call follows another: one first inscription,
\* and every second one
SeqBlockInputs(c) == IF c = 1 THEN {"research"} ELSE {"research", "build"}
SeqSummaryInputs(c) == IF c = 1 THEN {SummaryLimit} ELSE {0, SummaryLimit}
SeqContentInputs(c) == IF c = 1 THEN {"content"} ELSE {"content", "other"}
SeqProofInputs(c) == IF c = 1 THEN {} ELSE {ProofString(<<"0", "x">>, HashLen, 1, "lower")}

\* ------------------------------------------------------ the specifications

\* a step of the coroutine of call c past one of its awaits
\* (fault: the transport to the node fails under the await)
Resume(c, fault) ==
    \/ GetTransactionCount(c, fault)
    \/ GasPrice(c, fault)
    \/ BuildTransaction(c, fault)
    \/ SendRawTransaction(c, fault)
    \/ WaitForTransactionReceipt(c, fault)
    \/ TotalCyclesCall(c, fault)

\* the chain produces a block, with at most `others` inscriptions of other identities
Mine(others) ==
    \/ \E k \in 0..others : MineEmpty(k)
    \/ \E t \in Calls, k \in 0..others :
          \E ph \in ContractProofHashes(nodeTx[t].hash32) \cup {<<>>} : MineTx(t, k, ph)

\* two calls of one client instance, in any interleaving of their awaits
Next ==
    \/ \E c \in Calls : \E b \in FewBlockInputs, s \in FewSummaryInputs, ct \in FewContentInputs :
          Inscribe(c, b, s, ct)
    \/ \E c \in Calls : \E p \in FewProofInputs : Attest(c, p, TRUE)
    \/ \E c \in Calls : TotalCycles(c)
    \/ \E c \in Calls, fault \in BOOLEAN : Resume(c, fault)
    \/ Mine(0)

Spec == Init /\ [][Next]_vars

\* one call alone, over all the inputs
NextAlone ==
    \/ \E b \in BlockInputs, s \in SummaryInputs, ct \in ContentInputs : Inscribe(1, b, s, ct)
    \/ \E p \in ProofInputs, v \in BOOLEAN : Attest(1, p, v)
    \/ TotalCycles(1)
    \/ \E fault \in BOOLEAN : Resume(1, fault)
    \/ Mine(0)

SpecAlone == Init /\ [][NextAlone]_vars

\* one call alone against a node whose gas price moves and a contract that other
\* identities inscribe to
NextChain ==
    \/ \E b \in FewBlockInputs, s \in FewSummaryInputs, ct \in ContentInputs : Inscribe(1, b, s, ct)
    \/ \E p \in FewProofInputs, v \in BOOLEAN : Attest(1, p, v)
    \/ TotalCycles(1)
    \/ \E fault \in BOOLEAN : Resume(1, fault)
    \/ Mine(MaxOthers)
    \/ GasPriceRises

SpecChain == Init /\ [][NextChain]_vars

\* two calls of one client instance: inscriptions awaited by their caller or run
\* through inscribe_sync, attestations run through attest_sync (each blocking
\* call on a thread of its own)
NextSync ==
    \/ \E c \in Calls : \E b \in FewBlockInputs, s \in FewSummaryInputs, ct \in FewContentInputs :
          Inscribe(c, b, s, ct)
    \/ \E c \in Calls : \E b \in FewBlockInputs, s \in FewSummaryInputs, ct \in FewContentInputs :
          InscribeSync(c, b, s, ct)
    \/ \E c \in Calls : \E p \in FewProofInputs : AttestSync(c, p, TRUE)
    \/ \E c \in Calls, fault \in BOOLEAN : Resume(c, fault)
    \/ Mine(0)

SpecSync == Init /\ [][NextSync]_vars

\* the caller awaits call 1 to its end before it makes call 2
Awaited(c) == c = 1 \/ pc[1] \in {"done", "failed"}

\* two calls of one client instance, the second (an inscription or the
\* attestation of a proof) made after the first (an inscription) has returned or
\* raised, against a node whose gas price moves
NextSeq ==
    \/ \E c \in Calls : \E b \in SeqBlockInputs(c), s \in SeqSummaryInputs(c), ct \in SeqContentInputs(c) :
          Awaited(c) /\ Inscribe(c, b, s, ct)
    \/ \E c \in Calls : \E p \in SeqProofInputs(c) : Awaited(c) /\ Attest(c, p, TRUE)
    \/ \E c \in Calls, fault \in BOOLEAN : Awaited(c) /\ Resume(c, fault)
    \/ Mine(0)
    \/ GasPriceRises

SpecSeq == Init /\ [][NextSeq]_vars

\* the node answers every request and the event loop resumes the coroutine
\* that awaits the answer
Fairness == \A c \in Calls : WF_vars(Resume(c, FALSE))

LiveSpec == Init /\ [][Next]_vars /\ Fairness

\* ------------------------------------------------------------- the claims

Range(seq) == {seq[i] : i \in 1..Len(seq)}

\* call c has left no trace on the node: no method invoked, nothing received,
\* nothing answered
NoNetworkCall(c) ==
    /\ rpcs[c] = <<>>
    /\ nodeTx[c] = NoTx
    /\ pool[c] = "none"
    /\ replied[c] = NoReply

\* C1: an inscribe call whose summary is longer than 140 characters, whatever
\* its category and content, has failed with the validation exception
\* (ValueError) as soon as it has started, returns nothing, and has invoked no
\* method of the node.
C1_LongSummaryFailsOffline ==
    \A c \in Calls :
        (op[c] = "inscribe" /\ args[c].summary > 140) =>
            /\ pc[c] = "failed"
            /\ error[c] = "ValueError"
            /\ result[c] = NoResult
            /\ NoNetworkCall(c)

C1_Witness ==
    \E c \in Calls :
        /\ op[c] = "inscribe"
        /\ args[c].summary = 141
        /\ args[c].block = "research"
        /\ error[c] = "ValueError"

\* C2: an inscribe call whose category is none of build, research, market,
\* system, governance has failed with a caller-input exception raised locally
\* (KeyError from the mapping, or ValueError when the summary is too long as
\* well) as soon as it has started, returns nothing, and has invoked no method
\* of the node.
C2_UnknownCategoryFailsOffline ==
    \A c \in Calls :
        (op[c] = "inscribe"
            /\ args[c].block \notin {"build", "research", "market", "system", "governance"}) =>
            /\ pc[c] = "failed"
            /\ error[c] \in {"KeyError", "ValueError"}
            /\ (args[c].summary <= 140 => error[c] = "KeyError")
            /\ result[c] = NoResult
            /\ NoNetworkCall(c)

C2_Witness ==
    \E c \in Calls :
        /\ op[c] = "inscribe"
        /\ args[c].block = "unknown"
        /\ args[c].summary = 140
        /\ error[c] = "KeyError"

\* C3: the sequence numbers of the transactions that two calls of the same
\* client have passed to send_raw_transaction are distinct.
C3_SubmittedNoncesDistinct ==
    \A c, d \in Calls :
        (c # d /\ nodeTx[c] # NoTx /\ nodeTx[d] # NoTx) => nodeTx[c].nonce # nodeTx[d].nonce

\* the transaction call c sent has been included in a block
Included(c) == ReceiptCalls(frame[c].tx_hash) # {}

\* C4: an inscribe call that has submitted its transaction and waits for the
\* receipt leaves the wait: unless the transaction is included, the call ends
\* with the timeout exception of the wait (TimeExhausted) and returns no
\* result.  (A transport failure under the wait, which is not the node of the
\* claim, ends the call with ConnectionError.)
C4_WaitTimesOut ==
    \A c \in Calls :
        (op[c] = "inscribe" /\ pc[c] = "wait_for_transaction_receipt") ~>
            \/ Included(c)
            \/ /\ pc[c] = "failed"
               /\ error[c] \in {"TimeExhausted", "ConnectionError"}
               /\ result[c] = NoResult

C4_Witness ==
    \E c \in Calls :
        /\ op[c] = "inscribe"
        /\ pool[c] = "pending"
        /\ ~Included(c)
        /\ pc[c] = "failed"
        /\ error[c] = "TimeExhausted"
        /\ result[c] = NoResult

\* C5: whenever inscribe or attest has returned a result, the wait for the
\* receipt and the read of the counter have both completed in that call.
C5_ResultAfterConfirmationAndCounter ==
    \A c \in Calls :
        result[c].kind \in {"InscribeResult", "AttestResult"} =>
            /\ frame[c].receipt # NoReceipt
            /\ "totalCycles" \in Range(rpcs[c])
            /\ replied[c].totalCycles >= 0

IsPrefix(h, full) == Len(h) <= Len(full) /\ \A i \in 1..Len(h) : h[i] = full[i]

Last(h) == h[Len(h)]

\* the stages a call has passed are the first stages of the pipeline in its
\* order, with Failed after them if the call has failed before Reported
InOrder(h) ==
    \/ IsPrefix(h, <<"Built", "StateFetched", "Signed", "Submitted", "Confirmed", "Reported">>)
    \/ /\ Len(h) >= 1
       /\ Len(h) <= 6
       /\ Last(h) = "Failed"
       /\ IsPrefix(SubSeq(h, 1, Len(h) - 1),
                   <<"Built", "StateFetched", "Signed", "Submitted", "Confirmed">>)

\* what the call has done by the time it is in the stage it has reached last
StageMatches(c) ==
    LET h == hist[c]
    IN  /\ pc[c] \in {"get_transaction_count", "gas_price"} <=> (h # <<>> /\ Last(h) = "Built")
        /\ pc[c] = "build_transaction" <=> (h # <<>> /\ Last(h) = "StateFetched")
        /\ pc[c] = "send_raw_transaction" <=> (h # <<>> /\ Last(h) = "Signed")
        /\ pc[c] = "wait_for_transaction_receipt" <=> (h # <<>> /\ Last(h) = "Submitted")
        /\ pc[c] = "totalCycles" <=> (h # <<>> /\ Last(h) = "Confirmed")
        /\ pc[c] = "done" <=> (h # <<>> /\ Last(h) = "Reported")
        /\ pc[c] = "failed" <=> (h # <<>> /\ Last(h) = "Failed")
        /\ "StateFetched" \in Range(h) <=> (frame[c].nonce >= 0 /\ frame[c].gas_price >= 0)
        /\ "Signed" \in Range(h) <=> frame[c].tx # NoTx
        /\ "Submitted" \in Range(h) <=> pool[c] \in {"pending", "mined"}
        /\ "Confirmed" \in Range(h) <=> frame[c].receipt # NoReceipt
        /\ "Reported" \in Range(h) <=> result[c] # NoResult

\* C6: every inscribe and every attest call passes the stages Built,
\* StateFetched, Signed, Submitted, Confirmed, Reported in this order, none
\* skipped and none twice; the only other stage it can enter is Failed, which
\* it never leaves; each step of a call adds stages and removes none.
C6_StagesInOrder ==
    /\ [](\A c \in Calls : op[c] \in {"inscribe", "attest"} => InOrder(hist[c]) /\ StageMatches(c))
    /\ [][\A c \in Calls : IsPrefix(hist[c], hist'[c])]_vars

C6_Witness ==
    \E c, d \in Calls :
        /\ op[c] = "inscribe" /\ Last(hist[c]) = "Reported" /\ Len(hist[c]) = 6
        /\ op[d] = "attest" /\ Last(hist[d]) = "Reported" /\ Len(hist[d]) = 6

\* the bytes a well-formed proof identifier denotes
Denoted(proof_hash) == FromHex(RemovePrefix0x(proof_hash))

\* C7: the proof identifier attest passes on is exactly 32 bytes long for
\* every identifier that denotes whole bytes: the bytes of an identifier of
\* fewer than 32 bytes in their order, followed by zero bytes; an identifier
\* of 32 bytes unchanged; the first 32 bytes of a longer identifier.
C7_ProofIdentifierIs32Bytes ==
    \A c \in Calls :
        (op[c] = "attest" /\ Denoted(args[c].proof_hash).ok) =>
            LET b == Denoted(args[c].proof_hash).bytes
                ph32 == frame[c].ph32
            IN  /\ Len(ph32) = 32
                /\ \A i \in 1..32 : ph32[i] = IF i <= Len(b) THEN b[i] ELSE 0
                /\ Len(b) = 32 => ph32 = b
                /\ frame[c].tx # NoTx => frame[c].tx.hash32 = ph32

C7_Witness ==
    \E c \in Calls :
        /\ op[c] = "attest"
        /\ Denoted(args[c].proof_hash).ok
        /\ Len(Denoted(args[c].proof_hash).bytes) = 33
        /\ Denoted(args[c].proof_hash).bytes[33] # 0
        /\ Len(frame[c].ph32) = 32
        /\ nodeTx[c].hash32 = frame[c].ph32

\* C8: the tx_hash of an InscribeResult is the hex form of the transaction id
\* the node answered the submission with, and its network_cycle is the value
\* the node answered the totalCycles call of that inscribe with.
C8_ResultCarriesNodeAnswers ==
    \A c \in Calls :
        result[c].kind = "InscribeResult" =>
            /\ FromHex(result[c].tx_hash).ok
            /\ FromHex(result[c].tx_hash).bytes = replied[c].tx_id
            /\ replied[c].tx_id # <<>>
            /\ result[c].network_cycle = replied[c].totalCycles

C8_Witness ==
    \E c \in Calls :
        /\ result[c].kind = "InscribeResult"
        /\ args[c].block = "research"
        /\ nodeTx[c].nonce = InitNonce
        /\ nodeTx[c].gasPrice = InitGasPrice
        /\ frame[c].polls >= 1
        /\ result[c].network_cycle = totalCycles
        /\ result[c].network_cycle # blockNumber

\* C9: the proof_hash of an InscribeResult is the proofHash the contract
\* computed for the inscription, as the receipt of the transaction carries it.
C9_ProofHashFromChain ==
    \A c \in Calls :
        result[c].kind = "InscribeResult" =>
            \A d \in ReceiptCalls(frame[c].tx_hash) :
                Denoted(result[c].proof_hash).bytes = chainReceipt[d].proofHash

\* C10: the cycle_id of an InscribeResult is the cycle id the contract
\* assigned to the inscription.
C10_CycleIdFromContract ==
    \A c \in Calls :
        result[c].kind = "InscribeResult" =>
            \A d \in ReceiptCalls(frame[c].tx_hash) :
                result[c].cycle_id = chainReceipt[d].cycleId

\* C11: inscribe_sync returns, field by field, what an awaited inscribe with
\* the same arguments returns when the node answers both alike (the same
\* transaction id, the same receipt, the same counter value); and what it
\* returns is the finished result of the coroutine or nothing: while the
\* coroutine has not finished, and when it has failed, nothing is returned
\* (attest_sync, the same wrapper around attest, included).
C11_SyncReturnsWhatAwaitReturns ==
    /\ \A c, d \in Calls :
          ( /\ op[c] = "inscribe" /\ args[c].sync /\ pc[c] = "done"
            /\ op[d] = "inscribe" /\ ~args[d].sync /\ pc[d] = "done"
            /\ args[c].block = args[d].block
            /\ args[c].summary = args[d].summary
            /\ args[c].content = args[d].content
            /\ replied[c] = replied[d]
            /\ frame[c].receipt = frame[d].receipt ) => result[c] = result[d]
    /\ \A c \in Calls :
          args[c].sync =>
              /\ pc[c] = "done" =>
                    result[c].kind = (IF op[c] = "inscribe" THEN "InscribeResult" ELSE "AttestResult")
              /\ pc[c] # "done" => result[c] = NoResult
              /\ pc[c] = "failed" <=> error[c] # "none"

C11_Witness ==
    \E c, d \in Calls :
        /\ op[c] = "inscribe" /\ args[c].sync /\ pc[c] = "done"
        /\ op[d] = "inscribe" /\ ~args[d].sync /\ pc[d] = "done"
        /\ args[c] = [args[d] EXCEPT !.sync = TRUE]
        /\ replied[c] = replied[d]
        /\ frame[c].receipt = frame[d].receipt
        /\ result[c].network_cycle >= 1

\* the inscriptions of the two calls that reached the node
Submitted(c) == op[c] = "inscribe" /\ nodeTx[c] # NoTx

\* C12: the contentHash argument of every submitted inscription is the whole
\* 32-byte SHA-256 digest of the whole content, so two inscriptions of identical
\* content submit byte-identical contentHash arguments whatever their category,
\* summary, nonce or the state of the node, and inscriptions of different content
\* submit different ones
C12_ContentHashIsDigestOfContent ==
    /\ \A c \in Calls :
          Submitted(c) =>
              /\ Len(nodeTx[c].hash32) = HashLen
              /\ nodeTx[c].hash32 = Sha256(args[c].content)
    /\ \A c, d \in Calls :
          (Submitted(c) /\ Submitted(d)) =>
              (args[c].content = args[d].content <=> nodeTx[c].hash32 = nodeTx[d].hash32)

\* two inscriptions of the same content that differ in category, summary, nonce
\* and gas price have both been submitted
C12_Witness ==
    \E c, d \in Calls :
        /\ Submitted(c) /\ Submitted(d)
        /\ args[c].content = "content" /\ args[d].content = "content"
        /\ args[c].block # args[d].block
        /\ args[c].summary # args[d].summary
        /\ nodeTx[c].nonce # nodeTx[d].nonce
        /\ nodeTx[c].gasPrice # nodeTx[d].gasPrice
        /\ nodeTx[c].hash32 = nodeTx[d].hash32
        /\ pool[c] = "mined" /\ pool[d] = "pending"

\* how many times call c has invoked a method of the node
Invocations(c, method) == Cardinality({i \in 1..Len(rpcs[c]) : rpcs[c][i] = method})

\* C13: a call broadcasts at most one transaction, and a call whose transaction
\* the node rejected at submission has failed with the node's submission error,
\* its submission being the last thing it asked of the node: no wait for a
\* receipt, no read of the counter, no result
C13_RejectedSubmissionFailsOnce ==
    \A c \in Calls :
        /\ Invocations(c, "send_raw_transaction") <= 1
        /\ pool[c] = "rejected" =>
              /\ pc[c] = "failed"
              /\ error[c] = "Web3RPCError"
              /\ result[c] = NoResult
              /\ Last(rpcs[c]) = "send_raw_transaction"
              /\ Invocations(c, "wait_for_transaction_receipt") = 0
              /\ Invocations(c, "totalCycles") = 0
              /\ replied[c] = NoReply

\* the node has rejected the transaction of an inscription and that of an attestation
C13_Witness ==
    \E c, d \in Calls :
        /\ op[c] = "inscribe" /\ op[d] = "attest"
        /\ pool[c] = "rejected" /\ pool[d] = "rejected"
        /\ nodeTx[c] # NoTx /\ nodeTx[d] # NoTx
        /\ error[c] = "Web3RPCError" /\ error[d] = "Web3RPCError"

\* call c has given up waiting for the receipt of the transaction it submitted
Abandoned(c) == pc[c] = "failed" /\ error[c] = "TimeExhausted"

\* C14: a call that gave up waiting for its receipt has a transaction at the
\* node, pending or included, and reports the timeout and not a rejection (a
\* rejection is reported exactly when the node rejected the transaction); from
\* then on the call asks nothing more of the node, and its transaction stays as
\* submitted: it is not withdrawn, not replaced, and may go from pending to included
C14_AbandonedWaitLeavesTransaction ==
    /\ [](\A c \in Calls :
            /\ Abandoned(c) => (nodeTx[c] # NoTx /\ pool[c] \in {"pending", "mined"}
                                /\ result[c] = NoResult)
            /\ error[c] = "Web3RPCError" <=> pool[c] = "rejected")
    /\ [][\A c \in Calls :
            Abandoned(c) =>
                /\ Abandoned(c)'
                /\ rpcs'[c] = rpcs[c]
                /\ nodeTx'[c] = nodeTx[c]
                /\ pool'[c] \in {pool[c], "mined"}
                /\ pool[c] = "mined" => pool'[c] = "mined"]_vars

\* the transaction of a call that gave up waiting has been included afterwards
C14_Witness ==
    \E c \in Calls :
        /\ Abandoned(c)
        /\ pool[c] = "mined"
        /\ chainReceipt[c].blockNumber >= 1
        /\ Last(rpcs[c]) = "wait_for_transaction_receipt"
        /\ result[c] = NoResult

\* what a call of total_cycles leaves alone at the node
ChainState == <<txCount, gasPrice, blockNumber, totalCycles, pool, nodeTx, chainReceipt>>

\* C15: a call of total_cycles submits no transaction and asks the node for
\* nothing but the counter; the step that reads the counter returns exactly the
\* contract's counter of that moment and changes nothing at the node: not the
\* counter, not the signer's transaction count, no transaction
C15_TotalCyclesReadsOnly ==
    /\ [](\A c \in Calls :
            op[c] = "total_cycles" =>
                /\ nodeTx[c] = NoTx /\ pool[c] = "none"
                /\ IsPrefix(rpcs[c], <<"totalCycles">>)
                /\ pc[c] = "done" => /\ result[c].kind = "int"
                                     /\ result[c].value = replied[c].totalCycles
                                     /\ rpcs[c] = <<"totalCycles">>
                /\ pc[c] # "done" => result[c] = NoResult)
    /\ [][\A c \in Calls :
            (op[c] = "total_cycles" /\ pc[c] # pc'[c]) =>
                /\ ChainState' = ChainState
                /\ pc'[c] = "done" => (result'[c].kind = "int" /\ result'[c].value = totalCycles)]_vars

\* total_cycles has returned a counter that inscriptions of others have raised
C15_Witness ==
    \E c \in Calls :
        /\ op[c] = "total_cycles" /\ pc[c] = "done"
        /\ result[c].kind = "int" /\ result[c].value >= 1
        /\ result[c].value = totalCycles
        /\ txCount = InitNonce

\* call c is past its validation: an inscription or attestation with a first await
PastValidation(c) ==
    /\ op[c] \in {"inscribe", "attest"}
    /\ ~(pc[c] = "failed" /\ error[c] \in {"ValueError", "KeyError"})

\* C16: nothing is kept from one call to the next. The first two things a call
\* past its validation asks of the node are the signer's transaction count and
\* the gas price, the values it takes are the node's values of that moment, and
\* the transaction it submits carries the nonce and the gas price fetched in that
\* same call; so a call made after a confirmed one submits a greater nonce
C16_NonceAndGasPriceFetchedEachCall ==
    /\ [](\A c \in Calls :
            PastValidation(c) =>
                /\ IsPrefix(SubSeq(rpcs[c], 1, Min(2, Len(rpcs[c]))),
                            <<"get_transaction_count", "gas_price">>)
                /\ nodeTx[c] # NoTx =>
                      /\ Invocations(c, "get_transaction_count") = 1
                      /\ Invocations(c, "gas_price") = 1
                      /\ nodeTx[c].nonce = frame[c].nonce
                      /\ nodeTx[c].gasPrice = frame[c].gas_price)
    /\ [](\A c, d \in Calls :
            (pc[c] = "done" /\ pool[c] = "mined" /\ c < d /\ nodeTx[d] # NoTx) =>
                nodeTx[d].nonce > nodeTx[c].nonce)
    /\ [][\A c \in Calls :
            /\ (pc[c] = "get_transaction_count" /\ pc'[c] = "gas_price") =>
                  frame'[c].nonce = txCount
            /\ (pc[c] = "gas_price" /\ pc'[c] = "build_transaction") =>
                  frame'[c].gas_price = gasPrice]_vars

\* after a confirmed inscription, a second call has submitted a transaction with
\* the node's updated transaction count and a gas price that has moved since
C16_Witness ==
    \E c, d \in Calls :
        /\ c < d
        /\ pc[c] = "done" /\ pool[c] = "mined"
        /\ op[d] = "attest" /\ nodeTx[d] # NoTx
        /\ nodeTx[c].nonce = InitNonce
        /\ nodeTx[d].nonce = InitNonce + 1
        /\ nodeTx[c].gasPrice = InitGasPrice
        /\ nodeTx[d].gasPrice = MaxGasPrice

\* C17: the bound on the summary is inclusive. An inscription of a known
\* category with a summary of 140 characters or fewer is not turned away by the
\* validation and goes on to the fetch of the transaction count, the first
\* thing it asks of the node; an inscription is turned away for its summary
\* exactly when the summary has 141 characters or more
C17_SummaryBoundInclusive ==
    \A c \in Calls :
        op[c] = "inscribe" =>
            /\ (KnownBlock(args[c].block) /\ args[c].summary <= 140) =>
                  /\ error[c] \notin {"ValueError", "KeyError"}
                  /\ \/ pc[c] = "get_transaction_count" /\ rpcs[c] = <<>>
                     \/ Len(rpcs[c]) >= 1 /\ rpcs[c][1] = "get_transaction_count"
            /\ error[c] = "ValueError" <=> args[c].summary >= 141

\* an inscription with a summary of exactly 140 characters has fetched the
\* transaction count
C17_Witness ==
    \E c \in Calls :
        /\ op[c] = "inscribe"
        /\ args[c].summary = 140
        /\ KnownBlock(args[c].block)
        /\ pc[c] = "gas_price"
        /\ rpcs[c] = <<"get_transaction_count">>
        /\ frame[c].nonce = txCount

\* the methods an inscription or attestation invokes on the node, in the order
\* of its awaits
Pipeline(o) ==
    <<"get_transaction_count", "gas_price", "build_transaction", "send_raw_transaction",
      "wait_for_transaction_receipt">> \o (IF o = "inscribe" THEN <<"totalCycles">> ELSE <<>>)

\* C18: the pipeline of an inscription or attestation is fail-stop. What a call
\* has invoked on the node is always an initial part of its pipeline, each step
\* once; a failed call has no result, and was stopped at the step that failed:
\* a call that failed before its submission has broadcast nothing; and once
\* failed, a call invokes nothing more and stays failed
C18_FailStop ==
    /\ [](\A c \in Calls :
            op[c] \in {"inscribe", "attest"} =>
                /\ IsPrefix(rpcs[c], Pipeline(op[c]))
                /\ pc[c] = "failed" <=> error[c] # "none"
                /\ pc[c] = "failed" =>
                      /\ result[c] = NoResult
                      /\ Invocations(c, "send_raw_transaction") = 0 =>
                            (nodeTx[c] = NoTx /\ pool[c] = "none")
                      /\ error[c] = "ConnectionError" =>
                            /\ rpcs[c] # <<>>
                            /\ Last(rpcs[c]) \in {"get_transaction_count", "gas_price",
                                    "build_transaction", "send_raw_transaction"} =>
                                  (nodeTx[c] = NoTx /\ pool[c] = "none"))
    /\ [][\A c \in Calls :
            pc[c] = "failed" =>
                /\ pc'[c] = "failed"
                /\ rpcs'[c] = rpcs[c]
                /\ nodeTx'[c] = nodeTx[c]
                /\ result'[c] = NoResult
                /\ error'[c] = error[c]]_vars

\* one call has failed at its gas-price fetch and has broadcast nothing, another
\* at its counter read after its inscription was confirmed
C18_Witness ==
    \E c, d \in Calls :
        /\ pc[c] = "failed" /\ error[c] = "ConnectionError"
        /\ rpcs[c] = <<"get_transaction_count", "gas_price">>
        /\ nodeTx[c] = NoTx
        /\ pc[d] = "failed" /\ error[d] = "ConnectionError"
        /\ op[d] = "inscribe" /\ Last(rpcs[d]) = "totalCycles"
        /\ pool[d] = "mined" /\ result[d] = NoResult

\* C19: the contract's counter never decreases, and an inscription that returned
\* had its transaction included before it read the counter, so the network_cycle
\* of its result is the counter as read after its own confirmation: at least the
\* counter value just after its own inscription was included
C19_NetworkCycleAfterOwnInclusion ==
    /\ [](\A c \in Calls :
            result[c].kind = "InscribeResult" =>
                /\ result[c].network_cycle = replied[c].totalCycles
                /\ \E d \in ReceiptCalls(frame[c].tx_hash) :
                      /\ frame[c].receipt = chainReceipt[d]
                      /\ result[c].network_cycle >= chainReceipt[d].cycleId)
    /\ [][/\ totalCycles' >= totalCycles
          /\ \A c \in Calls :
                (op[c] = "inscribe" /\ Invocations(c, "totalCycles")' > Invocations(c, "totalCycles")) =>
                    \E d \in ReceiptCalls(frame[c].tx_hash) :
                        /\ frame[c].receipt = chainReceipt[d]
                        /\ totalCycles >= chainReceipt[d].cycleId]_vars

\* inscriptions of others landed between the confirmation of the call and its
\* read of the counter: the network_cycle returned is strictly greater than the
\* counter just after the call's own inscription
C19_Witness ==
    \E c \in Calls :
        /\ result[c].kind = "InscribeResult"
        /\ pool[c] = "mined"
        /\ chainReceipt[c].cycleId >= 1
        /\ result[c].network_cycle > chainReceipt[c].cycleId

\* the positions where a run of characters other than white space starts and ends
RunStarts(s) == {i \in 1..Len(s) : ~IsSpace(s[i]) /\ (i = 1 \/ IsSpace(s[i - 1]))}
RunEnds(s) == {i \in 1..Len(s) : ~IsSpace(s[i]) /\ (i = Len(s) \/ IsSpace(s[i + 1]))}

\* s is hex text: apart from white space it holds hex digits only, and the
\* digits stand in pairs, every run of them being of even length
HexText(s) ==
    /\ \A i \in 1..Len(s) : IsSpace(s[i]) \/ IsHexChar(s[i])
    /\ \A i \in RunStarts(s) :
          LET end == CHOOSE j \in RunEnds(s) :
                         j >= i /\ \A k \in RunEnds(s) : k >= i => j <= k
          IN  (end - i + 1) % 2 = 0

\* C20: an attestation whose proof identifier, once a leading "0x" is removed,
\* is not hex text has failed with the validation error without asking anything
\* of the node: no transaction count fetched, no transaction submitted; and an
\* attestation is turned away like this for no other proof identifier
C20_InvalidHexFailsOffline ==
    \A c \in Calls :
        op[c] = "attest" =>
            LET hex == HexText(RemovePrefix0x(args[c].proof_hash))
            IN  /\ ~hex => /\ pc[c] = "failed"
                            /\ error[c] = "ValueError"
                            /\ result[c] = NoResult
                            /\ NoNetworkCall(c)
                /\ error[c] = "ValueError" => ~hex

\* attestations of 32 bytes behind "0x" have been turned away: with a character
\* that is no hex digit, with a digit missing, behind an upper-case "0X"
C20_Witness ==
    \E c \in Calls :
        /\ op[c] = "attest"
        /\ args[c].proof_hash \in
              {ProofString(<<"0", "x">>, HashLen, 1, "nonhex"),
               ProofString(<<"0", "x">>, HashLen, 1, "odd"),
               ProofString(<<"0", "X">>, HashLen, 1, "lower")}
        /\ pc[c] = "failed" /\ error[c] = "ValueError"
        /\ NoNetworkCall(c)

============================================================================
